---- MODULE Spec2Model ----
(***************************************************************************)
(* Model of src/app.py: a Streamlit page that crawls an article, cleans    *)
(* and segments its text, counts word frequencies, filters low-frequency   *)
(* words and ranks the rest.                                               *)
(*                                                                         *)
(* Text is a sequence of characters; a character is a one-element name:    *)
(*   "dui" U+5BF9, "yu" U+4E8E, "wen" U+6587 : CJK ideographs              *)
(*   "pu"  : a whitelisted full-width punctuation mark (U+3002)            *)
(*   "ka"  : a character outside every class of the cleaner (kana U+304B)  *)
(*   "a", "1", " ", "nl", "+", "<", ">" : the ASCII characters they name   *)
(***************************************************************************)
EXTENDS Integers, Sequences, FiniteSets, TLC

VARIABLES pc, text, cleaned, recleaned, STOPWORDS, raw_seg, seg_list, word_count,
          stream, min_freq, filtered_word_count, sorted_word_data,
          response, result, session_state, chart_type, url, page, trace

vars == <<pc, text, cleaned, recleaned, STOPWORDS, raw_seg, seg_list, word_count,
          stream, min_freq, filtered_word_count, sorted_word_data,
          response, result, session_state, chart_type, url, page, trace>>

mainVars == <<session_state, chart_type, url, page, trace>>
extractVars == <<response, result>>
rankVars == <<stream, min_freq, filtered_word_count, sorted_word_data>>

cleanVars == <<cleaned, recleaned>>
segVars == <<STOPWORDS, raw_seg, seg_list, word_count>>

\* ------------------------------------------------------------ bounds
MaxCleanLen == 4
MaxSegLen == 5
MaxStreamLen == 6
MaxLongPrefix == 4
MaxNodes == 2
MaxMainLen == 3
TailLen == 21

\* ------------------------------------------------------------ program constants
\* st.slider(min_value=1, max_value=20, value=2)
MinFreqMin == 1
MinFreqMax == 20
MinFreqDefault == 2
\* most_common(20)
TopN == 20

\* ------------------------------------------------------------ characters
AsciiAlnum == {"a", "1"}
Whitespace == {" ", "nl"}
Ideograph == {"dui", "yu", "wen"}
Punct == {"pu"}

\* All sequences over S of length at most n.
SeqsUpTo(S, n) == UNION {[1..k -> S] : k \in 0..n}

\* ------------------------------------------------------------ cleaner
\* Index of the first ">" of s at or after position i, 0 when there is none.
RECURSIVE FirstGt(_, _)
FirstGt(s, i) ==
    IF i > Len(s) THEN 0
    ELSE IF s[i] = ">" THEN i
    ELSE FirstGt(s, i + 1)

\* re.sub(r"<[^>]+>", "", text), scanning from position i: a match starts at a
\* "<" followed by at least one character other than ">" and ends at the
\* first ">" after it; matches are removed left to right, without overlap.
RECURSIVE StripTagsFrom(_, _)
StripTagsFrom(s, i) ==
    IF i > Len(s) THEN <<>>
    ELSE IF /\ s[i] = "<"
            /\ i + 1 <= Len(s)
            /\ s[i + 1] # ">"
            /\ FirstGt(s, i + 2) # 0
         THEN StripTagsFrom(s, FirstGt(s, i + 2) + 1)
         ELSE <<s[i]>> \o StripTagsFrom(s, i + 1)

StripTags(s) == StripTagsFrom(s, 1)

\* re.sub(r"[0-9a-zA-Z\s+]", "", text): inside the class "+" is a literal.
IsAlnumSpacePlus(c) == c \in AsciiAlnum \cup Whitespace \cup {"+"}

RemoveAlnumSpace(s) == SelectSeq(s, LAMBDA c : ~IsAlnumSpacePlus(c))

\* re.sub(r"[^\u4e00-\u9fa5...]", "", text): keep ideographs and the
\* punctuation whitelist, drop every other character.
IsKept(c) == c \in Ideograph \cup Punct

KeepChinese(s) == SelectSeq(s, LAMBDA c : IsKept(c))

\* A cleaner whose second and third substitutions are lost.
clean_first_only(s) == StripTags(s)

\* The three substitutions of clean_and_segment, in order.
clean(s) == KeepChinese(RemoveAlnumSpace(StripTags(s)))

\* ------------------------------------------------------------ strings
\* str.strip(): drop leading and trailing whitespace.
RECURSIVE LStrip(_)
LStrip(s) ==
    IF s # <<>> /\ Head(s) \in Whitespace THEN LStrip(Tail(s)) ELSE s

RECURSIVE RStrip(_)
RStrip(s) ==
    IF s # <<>> /\ s[Len(s)] \in Whitespace
    THEN RStrip(SubSeq(s, 1, Len(s) - 1))
    ELSE s

Strip(s) == RStrip(LStrip(s))

\* ------------------------------------------------------------ extractor
\* A parsed document is a sequence of elements; an element has a tag, a
\* class attribute (NoClass when it has none), text of its own and child
\* elements, which have no children themselves.
NoClass == "no class attribute"

\* Python's None: a value that is no text (no character is named "None").
None == <<"None">>

PrunedTags == {"script", "style", "nav", "footer", "aside", "header"}

\* tag.decompose() for every element with a pruned tag: the element goes,
\* with everything inside it.
Prune(doc) ==
    LET keep(e) == e.tag \notin PrunedTags
        top == SelectSeq(doc, keep)
    IN  [i \in 1..Len(top) |->
            [top[i] EXCEPT !.kids = SelectSeq(top[i].kids, keep)]]

\* Every element of the document, in document order.
RECURSIVE Elements(_)
Elements(doc) ==
    IF doc = <<>> THEN <<>>
    ELSE <<doc[1]>> \o doc[1].kids \o Elements(Tail(doc))

RECURSIVE Concat(_)
Concat(seqs) ==
    IF seqs = <<>> THEN <<>> ELSE seqs[1] \o Concat(Tail(seqs))

\* tag.get_text(): the element's text with the text of what it contains.
get_text(e) == e.text \o Concat([i \in 1..Len(e.kids) |-> e.kids[i].text])

\* x.lower() and the substring test, for the class names of the model.
Lower(c) == IF c = "Main-Content" THEN "main-content" ELSE c

Contains(c, sub) ==
    <<c, sub>> \in {<<"main-content", "content">>, <<"post-article", "article">>}

\* lambda x: x and ("content" in x.lower() or "article" in x.lower())
ClassMatches(c) ==
    c # NoClass /\ (Contains(Lower(c), "content") \/ Contains(Lower(c), "article"))

IsArticle(e) == e.tag = "article"
IsContentDiv(e) == e.tag = "div" /\ ClassMatches(e.class)
IsParagraph(e) == e.tag = "p"

\* soup.find_all("article") or soup.find_all("div", class_=...) or
\* soup.find_all("p"): the first of the three lists that has an element.
content_tags(doc) ==
    LET all == Elements(doc)
        articles == SelectSeq(all, IsArticle)
        divs == SelectSeq(all, IsContentDiv)
    IN  IF articles # <<>> THEN articles
        ELSE IF divs # <<>> THEN divs
        ELSE SelectSeq(all, IsParagraph)

\* "\n".join(parts)
RECURSIVE Join(_)
Join(parts) ==
    IF parts = <<>> THEN <<>>
    ELSE IF Len(parts) = 1 THEN parts[1]
    ELSE parts[1] \o <<"nl">> \o Join(Tail(parts))

\* "\n".join([tag.get_text().strip() for tag in tags if tag.get_text().strip()])
TextOf(tags) ==
    LET stripped == [i \in 1..Len(tags) |-> Strip(get_text(tags[i]))]
    IN  Join(SelectSeq(stripped, LAMBDA t : t # <<>>))

ErrNoContent == <<"no content extracted">>
ErrCrawl(e) == <<"crawl failed: ", e>>

\* requests.get + raise_for_status: these outcomes raise an exception.
FetchFailures == {"timeout", "connection error", "http error status"}

\* A crawl that returns the joined text without looking whether it is empty.
crawl_without_empty_check(resp) ==
    IF resp.status \in FetchFailures
    THEN [text |-> None, error |-> ErrCrawl(resp.status), gets |-> 1]
    ELSE [text |-> TextOf(content_tags(Prune(resp.doc))), error |-> <<>>,
          gets |-> 1]

\* crawl_url_article(url), given what the one GET it issues comes back with:
\* the pair it returns, and the number of GETs issued.
crawl_url_article(resp) ==
    IF resp.status \in FetchFailures
    THEN [text |-> None, error |-> ErrCrawl(resp.status), gets |-> 1]
    ELSE LET article_text == TextOf(content_tags(Prune(resp.doc)))
         IN  IF article_text = <<>>
             THEN [text |-> None, error |-> ErrNoContent, gets |-> 1]
             ELSE [text |-> article_text, error |-> <<>>, gets |-> 1]

Failed(status) == [status |-> status, doc |-> <<>>]
Fetched(doc) == [status |-> "ok", doc |-> doc]

Leaf(tag, class, txt) == [tag |-> tag, class |-> class, text |-> txt, kids |-> <<>>]
Wrapped(tag, kid) == [tag |-> tag, class |-> NoClass, text |-> <<>>, kids |-> <<kid>>]

ExtractIdle ==
    /\ response = Failed("timeout")
    /\ result = [text |-> None, error |-> <<>>, gets |-> 0]

\* ------------------------------------------------------------ stopwords
\* The built-in stopwords that can be written with the model's ideographs:
\* U+5BF9, U+4E8E and the two-character word U+5BF9 U+4E8E.
default_stopwords == {<<"dui">>, <<"yu">>, <<"dui", "yu">>}

NoFile == "FileNotFoundError"

\* load_stopwords(): the stripped non-blank lines of stopwords.txt, or the
\* built-in set when the file does not exist.
load_stopwords(file) ==
    IF file = NoFile THEN default_stopwords
    ELSE {Strip(file[i]) : i \in {j \in 1..Len(file) : Strip(file[j]) # <<>>}}

\* The contents stopwords.txt may have: absent, empty, or three lines.
StopwordFiles ==
    { NoFile,
      <<>>,
      << <<"wen", "wen", "nl">>, <<" ", "nl">>, <<" ", "dui", "wen", "nl">> >> }

\* ------------------------------------------------------------ tokenizer
\* jieba.lcut(text): the segmenter is an external capability; it cuts the
\* text into consecutive non-empty pieces. Every such cut is a possible output.
RECURSIVE Segmentations(_)
Segmentations(s) ==
    IF s = <<>> THEN {<<>>}
    ELSE UNION { { <<SubSeq(s, 1, k)>> \o r :
                     r \in Segmentations(SubSeq(s, k + 1, Len(s))) } :
                 k \in 1..Len(s) }

\* A filter that keeps single-character words.
keep_word_any_length(word, stopwords) ==
    word \notin stopwords /\ Len(word) > 0 /\ Strip(word) # <<>>

\* word not in STOPWORDS and len(word) > 1 and word.strip()
keep_word(word, stopwords) ==
    word \notin stopwords /\ Len(word) > 1 /\ Strip(word) # <<>>

filter_words(seg, stopwords) ==
    SelectSeq(seg, LAMBDA word : keep_word(word, stopwords))

\* ------------------------------------------------------------ aggregator
\* A Counter is a dict: a sequence of <<word, count>> entries, one per key,
\* in the order the keys were first inserted.
Keys(counter) == {counter[i][1] : i \in 1..Len(counter)}

\* An update that does not count a repeated word.
IncrementLost(counter, word) ==
    IF word \in Keys(counter) THEN counter
    ELSE Append(counter, <<word, 1>>)

\* self[elem] = self.get(elem, 0) + 1
Increment(counter, word) ==
    IF word \in Keys(counter)
    THEN [i \in 1..Len(counter) |->
            IF counter[i][1] = word
            THEN <<word, counter[i][2] + 1>>
            ELSE counter[i]]
    ELSE Append(counter, <<word, 1>>)

\* Counter(iterable): count the elements from left to right.
RECURSIVE Counter(_)
Counter(seq) ==
    IF seq = <<>> THEN <<>>
    ELSE Increment(Counter(SubSeq(seq, 1, Len(seq) - 1)), seq[Len(seq)])

\* clean_and_segment(text), given the cut the segmenter makes of the
\* cleaned text: the segmenter's output, the kept words and their counts.
clean_and_segment(txt, stopwords, cut) ==
    LET kept == filter_words(cut, stopwords)
    IN  [raw |-> cut, seg_list |-> kept, word_count |-> Counter(kept)]

\* ------------------------------------------------------------ filter / ranker
\* A filter whose comparison is turned around.
filter_at_most(counter, m) ==
    SelectSeq(counter, LAMBDA e : e[2] <= m)

\* Counter({word: count for word, count in word_count.items()
\*          if count >= min_freq}): the kept entries, in the table's order.
filter_low_freq_words(counter, m) ==
    SelectSeq(counter, LAMBDA e : e[2] >= m)

\* An insertion that puts an entry before the entries of equal count.
InsertBeforeEqual(sorted, e) ==
    LET k == Cardinality({i \in 1..Len(sorted) : sorted[i][2] > e[2]})
    IN  SubSeq(sorted, 1, k) \o <<e>> \o SubSeq(sorted, k + 1, Len(sorted))

\* Insert e behind every entry whose count is at least e's count.
InsertByCount(sorted, e) ==
    LET k == Cardinality({i \in 1..Len(sorted) : sorted[i][2] >= e[2]})
    IN  SubSeq(sorted, 1, k) \o <<e>> \o SubSeq(sorted, k + 1, Len(sorted))

\* sorted(items, key=itemgetter(1), reverse=True): a stable sort, so
\* entries of equal count keep the order they have in the Counter.
RECURSIVE SortedByCount(_)
SortedByCount(counter) ==
    IF counter = <<>> THEN <<>>
    ELSE InsertByCount(SortedByCount(SubSeq(counter, 1, Len(counter) - 1)),
                       counter[Len(counter)])

\* Counter.most_common(n) is heapq.nlargest(n, items, key=itemgetter(1)),
\* which returns what sorted(items, key=key, reverse=True)[:n] returns.
most_common(counter, n) ==
    LET all == SortedByCount(counter)
    IN  SubSeq(all, 1, IF Len(all) < n THEN Len(all) ELSE n)

SegIdle ==
    /\ STOPWORDS = {}
    /\ raw_seg = <<>>
    /\ seg_list = <<>>
    /\ word_count = <<>>

CleanIdle ==
    /\ cleaned = <<>>
    /\ recleaned = <<>>

RankIdle ==
    /\ stream = <<>>
    /\ min_freq = MinFreqDefault
    /\ filtered_word_count = <<>>
    /\ sorted_word_data = <<>>

\* ------------------------------------------------------------ charts
ChartTypes ==
    {"wordcloud", "bar", "line", "pie", "radar", "scatter", "funnel", "gauge"}

ChartDefault == "wordcloud"

Take(s, n) == SubSeq(s, 1, IF Len(s) < n THEN Len(s) ELSE n)

\* generate_chart(chart_type, word_data): the data the chart is built from.
\* The radar shows the first ten entries, the gauge the first one.
generate_chart(type, word_data) ==
    LET top20_data == Take(word_data, TopN)
    IN  [ type |-> type,
          data |-> CASE type = "radar" -> Take(top20_data, 10)
                     [] type = "gauge" -> Take(top20_data, 1)
                     [] OTHER -> top20_data ]

\* ------------------------------------------------------------ main
\* st.session_state is a dict: a sequence of <<key, value>> entries.
HasWordCount(session) == \E i \in 1..Len(session) : session[i][1] = "word_count"

StoredTable(session) ==
    session[CHOOSE i \in 1..Len(session) : session[i][1] = "word_count"][2]

WithWordCount(counter) == <<<<"word_count", counter>>>>

\* if "word_count" not in st.session_state: st.session_state.word_count = Counter()
init_session(session) ==
    IF HasWordCount(session) THEN session ELSE WithWordCount(<<>>)

NoEffects ==
    [crawl |-> FALSE, fetch |-> "none", gets |-> 0, segmentations |-> 0,
     filters |-> 0, rankings |-> 0]

\* The analysis half of the crawl block, for the pair r the crawl returned:
\* an error is displayed and main returns; else the text is cleaned,
\* segmented and counted, and the table is stored in the session.
analyse(session, resp, r, seg) ==
    IF r.error # <<>>
    THEN [ session |-> session,
           page |-> <<[kind |-> "error", message |-> r.error]>>,
           returned |-> TRUE,
           effects |-> [NoEffects EXCEPT !.crawl = TRUE, !.fetch = resp.status,
                                         !.gets = r.gets] ]
    ELSE [ session |-> WithWordCount(seg.word_count),
           page |-> << [kind |-> "success", length |-> Len(r.text)],
                       [kind |-> "info", tokens |-> Len(seg.seg_list),
                        unique |-> Len(seg.word_count)] >>,
           returned |-> FALSE,
           effects |-> [NoEffects EXCEPT !.crawl = TRUE, !.fetch = resp.status,
                                         !.gets = r.gets, !.segmentations = 1] ]

\* The crawl and analysis block of main, entered when the button was clicked
\* and a URL is given: what it leaves in the session, what it displays,
\* whether main returns from it, and what it did.
crawl_and_analyse(session, resp, cut, stopwords) ==
    analyse(session, resp, crawl_url_article(resp),
            clean_and_segment(crawl_url_article(resp).text, stopwords, cut))

\* A display block that keeps the filtered table as the stored one.
show_results_storing_filtered(session, type, m) ==
    IF StoredTable(session) = <<>>
    THEN [session |-> session, page |-> <<>>, filters |-> 0, rankings |-> 0]
    ELSE LET filtered == filter_low_freq_words(StoredTable(session), m)
         IN  IF filtered = <<>>
             THEN [ session |-> WithWordCount(filtered),
                    page |-> <<[kind |-> "warning", min_freq |-> m]>>,
                    filters |-> 1, rankings |-> 0 ]
             ELSE LET sorted == most_common(filtered, TopN)
                  IN  [ session |-> WithWordCount(filtered),
                        page |-> << [kind |-> "dataframe", rows |-> sorted],
                                    [kind |-> "chart",
                                     chart |-> generate_chart(type, sorted)] >>,
                        filters |-> 1, rankings |-> 1 ]

\* The display block of main: nothing for an empty stored table, the
\* warning when the filter keeps nothing, else the top-20 table and the chart.
show_results(session, type, m) ==
    IF StoredTable(session) = <<>>
    THEN [session |-> session, page |-> <<>>, filters |-> 0, rankings |-> 0]
    ELSE LET filtered == filter_low_freq_words(StoredTable(session), m)
         IN  IF filtered = <<>>
             THEN [ session |-> session,
                    page |-> <<[kind |-> "warning", min_freq |-> m]>>,
                    filters |-> 1, rankings |-> 0 ]
             ELSE LET sorted == most_common(filtered, TopN)
                  IN  [ session |-> session,
                        page |-> << [kind |-> "dataframe", rows |-> sorted],
                                    [kind |-> "chart",
                                     chart |-> generate_chart(type, sorted)] >>,
                        filters |-> 1, rankings |-> 1 ]

\* What main leaves when the display block d has run after the crawl block c.
shown_after(c, d) ==
    [ session |-> d.session,
      page |-> c.page \o d.page,
      effects |-> [c.effects EXCEPT !.filters = d.filters,
                                    !.rankings = d.rankings] ]

\* The display block run after the crawl block c, unless main returned.
then_show(c, w) ==
    IF c.returned
    THEN [session |-> c.session, page |-> c.page, effects |-> c.effects]
    ELSE shown_after(c, show_results(c.session, w.chart_type, w.min_freq))

\* A display block that runs whether or not main returned.
always_show(c, w) ==
    shown_after(c, show_results(c.session, w.chart_type, w.min_freq))

\* A main that goes on to the display block after a failed crawl.
main_continuing_after_error(session, w, resp, cut, stopwords) ==
    always_show(IF w.crawl_btn /\ w.url # ""
                THEN crawl_and_analyse(init_session(session), resp, cut, stopwords)
                ELSE [session |-> init_session(session), page |-> <<>>,
                      returned |-> FALSE, effects |-> NoEffects],
                w)

\* One run of main() for the widget values w, the response the web gives to
\* a GET and the cut the segmenter makes: the session state it leaves, the
\* page it displays and what it did.
main(session, w, resp, cut, stopwords) ==
    then_show(IF w.crawl_btn /\ w.url # ""
              THEN crawl_and_analyse(init_session(session), resp, cut, stopwords)
              ELSE [session |-> init_session(session), page |-> <<>>,
                    returned |-> FALSE, effects |-> NoEffects],
              w)

Shown(pg, kind) == \E i \in 1..Len(pg) : pg[i].kind = kind

MainIdle ==
    /\ session_state = <<>>
    /\ chart_type = ChartDefault
    /\ url = ""
    /\ page = <<>>
    /\ trace = [NoEffects EXCEPT !.crawl = FALSE] @@ [after_warning |-> FALSE]

\* ------------------------------------------------------------ SpecSeg
SegChars == {"dui", "yu", "wen", "a"}

InitSeg ==
    /\ pc = "input"
    /\ text \in SeqsUpTo(SegChars, MaxSegLen)
    /\ \E file \in StopwordFiles : STOPWORDS = load_stopwords(file)
    /\ raw_seg = <<>>
    /\ seg_list = <<>>
    /\ word_count = <<>>
    /\ CleanIdle
    /\ RankIdle
    /\ ExtractIdle
    /\ MainIdle

CleanAndSegment ==
    /\ pc = "input"
    /\ \E cut \in Segmentations(clean(text)) :
          LET r == clean_and_segment(text, STOPWORDS, cut)
          IN  /\ raw_seg' = r.raw
              /\ seg_list' = r.seg_list
              /\ word_count' = r.word_count
    /\ pc' = "segmented"
    /\ UNCHANGED <<text, STOPWORDS, cleanVars, rankVars, extractVars, mainVars>>

NextSeg == CleanAndSegment

SpecSeg == InitSeg /\ [][NextSeg]_vars

\* C7: the returned token list is the segmenter's output restricted, in
\* order, to the tokens longer than one character and not stopwords.
C7_TokensFiltered ==
    pc = "segmented" =>
        /\ seg_list = SelectSeq(raw_seg,
                         LAMBDA w : Len(w) > 1 /\ w \notin STOPWORDS)
        /\ \A i \in 1..Len(seg_list) :
              Len(seg_list[i]) > 1 /\ seg_list[i] \notin STOPWORDS

\* C7 witness: a two-character stopword and a one-character token that is
\* no stopword were dropped, and a token was kept.
C7_Witness ==
    /\ pc = "segmented"
    /\ seg_list # <<>>
    /\ \E i \in 1..Len(raw_seg) : raw_seg[i] \in STOPWORDS /\ Len(raw_seg[i]) = 2
    /\ \E i \in 1..Len(raw_seg) : raw_seg[i] \notin STOPWORDS /\ Len(raw_seg[i]) = 1

RECURSIVE SumCounts(_)
SumCounts(counter) ==
    IF counter = <<>> THEN 0
    ELSE counter[1][2] + SumCounts(Tail(counter))

\* C8: the frequency table's keys are the distinct tokens of the token
\* list, each once, and its counts add up to the length of the token list.
C8_CountsSumToLength ==
    pc = "segmented" =>
        /\ Keys(word_count) = {seg_list[i] : i \in 1..Len(seg_list)}
        /\ Cardinality(Keys(word_count)) = Len(word_count)
        /\ SumCounts(word_count) = Len(seg_list)

\* C8 witness: a token list with a repeated token was counted.
C8_Witness ==
    /\ pc = "segmented"
    /\ Len(seg_list) = 2
    /\ seg_list[1] = seg_list[2]
    /\ word_count = <<<<seg_list[1], 2>>>>

\* ------------------------------------------------------------ SpecRank
\* Tokens of the streams: 1, 2, 3 stand for the words A, B, C.
Tokens == {1, 2, 3}

\* TailLen different tokens, each once; the first is the token 3.
LongTail == [i \in 1..TailLen |-> 2 + i]

InitRank ==
    /\ pc = "input"
    /\ \E short \in SeqsUpTo(Tokens, MaxStreamLen) : \E long \in BOOLEAN :
          /\ long => Len(short) <= MaxLongPrefix
          /\ stream = short \o (IF long THEN LongTail ELSE <<>>)
    /\ min_freq = MinFreqDefault
    /\ filtered_word_count = <<>>
    /\ sorted_word_data = <<>>
    /\ pc = "input"
    /\ text = <<>>
    /\ CleanIdle
    /\ SegIdle
    /\ ExtractIdle
    /\ MainIdle

\* word_count = Counter(seg_list)
Aggregate ==
    /\ pc = "input"
    /\ word_count' = Counter(stream)
    /\ pc' = "counted"
    /\ UNCHANGED <<text, cleanVars, STOPWORDS, raw_seg, seg_list, rankVars, extractVars, mainVars>>

\* The filter and rank stage of main for a slider value m.
FilterAndRank ==
    /\ pc \in {"counted", "ranked", "empty"}
    /\ \E m \in MinFreqMin..MinFreqMax :
          LET filtered == filter_low_freq_words(word_count, m)
          IN  /\ min_freq' = m
              /\ filtered_word_count' = filtered
              /\ IF filtered = <<>>
                 THEN /\ sorted_word_data' = <<>>
                      /\ pc' = "empty"
                 ELSE /\ sorted_word_data' = most_common(filtered, TopN)
                      /\ pc' = "ranked"
    /\ UNCHANGED <<text, cleanVars, segVars, stream, extractVars, mainVars>>

NextRank == Aggregate \/ FilterAndRank

SpecRank == InitRank /\ [][NextRank]_vars

Occurrences(s, t) == Cardinality({i \in 1..Len(s) : s[i] = t})

FirstOccurrence(s, t) ==
    CHOOSE i \in 1..Len(s) : s[i] = t /\ \A j \in 1..(i - 1) : s[j] # t

\* The tokens of the stream that occur at least m times.
Retained(s, m) == {t \in {s[i] : i \in 1..Len(s)} : Occurrences(s, t) >= m}

\* u ranks before t: more occurrences, or as many and an earlier first one.
RanksBefore(s, u, t) ==
    \/ Occurrences(s, u) > Occurrences(s, t)
    \/ /\ Occurrences(s, u) = Occurrences(s, t)
       /\ FirstOccurrence(s, u) < FirstOccurrence(s, t)

RankOf(s, m, t) == 1 + Cardinality({u \in Retained(s, m) : RanksBefore(s, u, t)})

\* C1: the ranked list holds the tokens occurring at least min_freq times,
\* by count descending, ties by first occurrence in the stream, cut to 20;
\* the stream [A,A,B,B,B,C] with min_freq 2 gives [(B,3),(A,2)].
C1_RankedAsReference ==
    /\ pc = "empty" => Retained(stream, min_freq) = {}
    /\ pc = "ranked" =>
          LET kept == Retained(stream, min_freq)
              n == IF Cardinality(kept) < TopN THEN Cardinality(kept) ELSE TopN
          IN  /\ Len(sorted_word_data) = n
              /\ n > 0
              /\ \A t \in kept :
                    RankOf(stream, min_freq, t) <= TopN =>
                        sorted_word_data[RankOf(stream, min_freq, t)]
                            = <<t, Occurrences(stream, t)>>
    /\ (pc = "ranked" /\ stream = <<1, 1, 2, 2, 2, 3>> /\ min_freq = 2)
          => sorted_word_data = <<<<2, 3>>, <<1, 2>>>>

\* C1 witness: more than 20 tokens were kept, the list was cut to 20 and
\* tokens of equal count stand in it.
C1_Witness ==
    /\ pc = "ranked"
    /\ Cardinality(Retained(stream, min_freq)) > TopN
    /\ Len(sorted_word_data) = TopN
    /\ sorted_word_data[1][2] > sorted_word_data[2][2]
    /\ sorted_word_data[2][2] = sorted_word_data[3][2]

Entries(counter) == {counter[i] : i \in 1..Len(counter)}

\* C9: raising the threshold only removes entries, and every retained
\* entry carries the count it has in the table.
C9_FilterMonotone ==
    [][ /\ (pc \in {"ranked", "empty"} /\ min_freq < min_freq')
            => Entries(filtered_word_count') \subseteq Entries(filtered_word_count)
        /\ (pc \in {"ranked", "empty"} /\ min_freq' < min_freq)
            => Entries(filtered_word_count) \subseteq Entries(filtered_word_count')
        /\ pc' \in {"ranked", "empty"}
            => Entries(filtered_word_count') \subseteq Entries(word_count') ]_vars

\* C9 witness: a filter that kept some entries and dropped others.
C9_Witness ==
    /\ pc = "ranked"
    /\ min_freq > MinFreqMin
    /\ Len(filtered_word_count) >= 2
    /\ Len(filtered_word_count) < Len(word_count)

\* ------------------------------------------------------------ SpecExtract
ExtractTexts == {<<" ">>, <<" ", "wen", "nl">>}

Leaves ==
    {Leaf(tag, NoClass, txt) :
        tag \in {"script", "style", "article", "p"}, txt \in ExtractTexts}
    \cup {Leaf("div", class, txt) :
        class \in {NoClass, "Main-Content", "post-article"}, txt \in ExtractTexts}

Nodes == Leaves \cup {Wrapped(tag, kid) : tag \in {"nav", "article", "div"}, kid \in Leaves}

Responses ==
    {Failed(status) : status \in FetchFailures}
    \cup {Fetched(doc) : doc \in SeqsUpTo(Nodes, MaxNodes)}

InitExtract ==
    /\ pc = "input"
    /\ response \in Responses
    /\ result = [text |-> None, error |-> <<>>, gets |-> 0]
    /\ text = <<>>
    /\ CleanIdle
    /\ SegIdle
    /\ RankIdle
    /\ MainIdle

Crawl ==
    /\ pc = "input"
    /\ result' = crawl_url_article(response)
    /\ pc' = "done"
    /\ UNCHANGED <<text, cleanVars, segVars, rankVars, response, mainVars>>

NextExtract == Crawl

SpecExtract == InitExtract /\ [][NextExtract]_vars

\* What a tier yields: the trimmed non-empty texts of its elements, joined.
TierOutput(doc, tier) ==
    LET all == Elements(Prune(doc))
    IN  CASE tier = 1 -> TextOf(SelectSeq(all, IsArticle))
          [] tier = 2 -> TextOf(SelectSeq(all, IsContentDiv))
          [] tier = 3 -> TextOf(SelectSeq(all, IsParagraph))

\* C2: when some tier yields non-empty output, the crawl returns the output
\* of the first such tier, and no error.
C2_FirstNonEmptyTier ==
    (pc = "done" /\ response.status = "ok") =>
        \A tier \in 1..3 :
            ( /\ TierOutput(response.doc, tier) # <<>>
              /\ \A earlier \in 1..(tier - 1) :
                    TierOutput(response.doc, earlier) = <<>> )
            => /\ result.text = TierOutput(response.doc, tier)
               /\ result.error = <<>>

\* C3: the crawl returns non-empty text and no error message, or no text and
\* an error message; when every tier is empty, the error is "no content".
C3_NeverEmptySuccess ==
    pc = "done" =>
        /\ \/ result.text # None /\ result.text # <<>> /\ result.error = <<>>
           \/ result.text = None /\ result.error # <<>>
        /\ ( /\ response.status = "ok"
             /\ \A tier \in 1..3 : TierOutput(response.doc, tier) = <<>> )
           => result.text = None /\ result.error = ErrNoContent

\* C3 witness: a fetched document holding only script and style elements.
C3_Witness ==
    /\ pc = "done"
    /\ response.status = "ok"
    /\ Len(response.doc) = 2
    /\ response.doc[1].tag = "script"
    /\ response.doc[2].tag = "style"
    /\ \A i \in 1..2 : Strip(response.doc[i].text) # <<>>
    /\ result = [text |-> None, error |-> ErrNoContent, gets |-> 1]

\* ------------------------------------------------------------ Spec
\* The pages the URL may lead to: one paragraph holding a run of ideographs,
\* ASCII text only, or whitespace only.
MainTexts ==
    {[i \in 1..k |-> "wen"] : k \in 1..MaxMainLen} \cup {<<"a", "1">>, <<" ">>}

MainResponses ==
    {Failed(status) : status \in FetchFailures}
    \cup {Fetched(<<Leaf("p", NoClass, txt)>>) : txt \in MainTexts}

Url == "https://example.com/article"

\* The cuts the segmenter may make in the run started by these inputs.
Cuts(resp) ==
    LET r == crawl_url_article(resp)
    IN  IF r.error # <<>> THEN {<<>>} ELSE Segmentations(clean(r.text))

Init ==
    /\ session_state = <<>>
    /\ chart_type = ChartDefault
    /\ min_freq = MinFreqDefault
    /\ url = ""
    /\ page = <<>>
    /\ trace = NoEffects @@ [after_warning |-> FALSE]
    /\ \E file \in StopwordFiles : STOPWORDS = load_stopwords(file)
    /\ pc = "main"
    /\ text = <<>>
    /\ CleanIdle
    /\ raw_seg = <<>>
    /\ seg_list = <<>>
    /\ word_count = <<>>
    /\ stream = <<>>
    /\ filtered_word_count = <<>>
    /\ sorted_word_data = <<>>
    /\ ExtractIdle

\* Streamlit runs main() anew with the widget values w.
Rerun(w, resp, cut) ==
    \E r \in {main(session_state, w, resp, cut, STOPWORDS)} :
        /\ session_state' = r.session
        /\ page' = r.page
        /\ trace' = r.effects @@ [after_warning |-> Shown(page, "warning")]
        /\ chart_type' = w.chart_type
        /\ min_freq' = w.min_freq
        /\ url' = w.url
        /\ UNCHANGED <<pc, text, cleanVars, STOPWORDS, raw_seg, seg_list,
                       word_count, stream, filtered_word_count,
                       sorted_word_data, extractVars>>

Widgets == [chart_type |-> chart_type, min_freq |-> min_freq, url |-> url,
            crawl_btn |-> FALSE]

\* The first run of the script in a session.
PageLoad ==
    /\ ~HasWordCount(session_state)
    /\ Rerun(Widgets, Failed("timeout"), <<>>)

SelectChart ==
    /\ HasWordCount(session_state)
    /\ \E c \in ChartTypes \ {chart_type} :
          Rerun([Widgets EXCEPT !.chart_type = c], Failed("timeout"), <<>>)

SlideMinFreq ==
    /\ HasWordCount(session_state)
    /\ \E m \in (MinFreqMin..MinFreqMax) \ {min_freq} :
          Rerun([Widgets EXCEPT !.min_freq = m], Failed("timeout"), <<>>)

TypeUrl ==
    /\ HasWordCount(session_state)
    /\ \E u \in {"", Url} \ {url} :
          Rerun([Widgets EXCEPT !.url = u], Failed("timeout"), <<>>)

ClickCrawl ==
    /\ HasWordCount(session_state)
    /\ \E resp \in MainResponses : \E cut \in Cuts(resp) :
          Rerun([Widgets EXCEPT !.crawl_btn = TRUE], resp, cut)

Next == PageLoad \/ SelectChart \/ SlideMinFreq \/ TypeUrl \/ ClickCrawl

Spec == Init /\ [][Next]_vars

RECURSIVE MaxCount(_)
MaxCount(counter) ==
    IF counter = <<>> THEN 0
    ELSE LET rest == MaxCount(Tail(counter))
         IN  IF counter[1][2] > rest THEN counter[1][2] ELSE rest

Rows(pg) == pg[CHOOSE i \in 1..Len(pg) : pg[i].kind = "dataframe"].rows

\* C4: a run of main without a crawl leaves the stored table as it was (an
\* absent table becomes the empty one), fetches and tokenizes nothing; the
\* warning is only shown over a non-empty stored table, and a run after it
\* with a threshold within the highest count shows a non-empty ranked list.
C4_RerankKeepsTable ==
    [][ /\ ~trace'.crawl =>
              /\ HasWordCount(session_state) => session_state' = session_state
              /\ ~HasWordCount(session_state) => session_state' = WithWordCount(<<>>)
              /\ trace'.gets = 0
              /\ trace'.segmentations = 0
        /\ Shown(page', "warning") =>
              /\ StoredTable(session_state') # <<>>
              /\ min_freq' > MaxCount(StoredTable(session_state'))
        /\ ( /\ ~trace'.crawl
             /\ Shown(page, "warning")
             /\ min_freq' <= MaxCount(StoredTable(session_state)) )
           => /\ Shown(page', "dataframe")
              /\ Rows(page') # <<>> ]_vars

\* C4 witness: right after the warning, a run without a crawl shows a ranked
\* list from the stored table.
C4_Witness ==
    /\ trace.after_warning
    /\ ~trace.crawl
    /\ Shown(page, "dataframe")
    /\ StoredTable(session_state) # <<>>

\* C5: after a successful crawl, whenever no entry of the stored table
\* reaches min_freq, the EmptyAfterFilter warning is shown.
C5_EmptyFilterReported ==
    ( /\ HasWordCount(session_state)
      /\ Shown(page, "success") \/ StoredTable(session_state) # <<>>
      /\ ~Shown(page, "error")
      /\ filter_low_freq_words(StoredTable(session_state), min_freq) = <<>> )
    => Shown(page, "warning")

\* C6: a run whose fetch fails issues one GET, shows the error and nothing
\* else, cleans, tokenizes, filters and ranks nothing, and leaves the stored
\* table as it was.
C6_FetchFailureAborts ==
    [][ trace'.fetch \in FetchFailures =>
          /\ trace'.gets = 1
          /\ page' = <<[kind |-> "error", message |-> ErrCrawl(trace'.fetch)]>>
          /\ trace'.segmentations = 0
          /\ trace'.filters = 0
          /\ trace'.rankings = 0
          /\ session_state' = session_state ]_vars

\* C6 witness: a fetch failed while a non-empty table was stored.
C6_Witness ==
    /\ trace.fetch \in FetchFailures
    /\ StoredTable(session_state) # <<>>
    /\ Shown(page, "error")

\* ------------------------------------------------------------ SpecClean
CleanChars == {"<", ">", "a", "1", " ", "+", "wen", "pu", "ka"}

InitClean ==
    /\ pc = "input"
    /\ text \in SeqsUpTo(CleanChars, MaxCleanLen)
    /\ cleaned = <<>>
    /\ recleaned = <<>>
    /\ SegIdle
    /\ RankIdle
    /\ ExtractIdle
    /\ MainIdle

Clean ==
    /\ pc = "input"
    /\ cleaned' = clean(text)
    /\ pc' = "cleaned"
    /\ UNCHANGED <<text, recleaned, segVars, rankVars, extractVars, mainVars>>

CleanAgain ==
    /\ pc = "cleaned"
    /\ recleaned' = clean(cleaned)
    /\ pc' = "recleaned"
    /\ UNCHANGED <<text, cleaned, segVars, rankVars, extractVars, mainVars>>

NextClean == Clean \/ CleanAgain

SpecClean == InitClean /\ [][NextClean]_vars

\* s holds a markup tag: a "<", one or more characters other than ">", a ">".
HasTag(s) ==
    \E i \in 1..Len(s) : \E j \in (i + 2)..Len(s) :
        /\ s[i] = "<"
        /\ s[j] = ">"
        /\ \A k \in (i + 1)..(j - 1) : s[k] # ">"

\* C10: cleaning the cleaner's output changes nothing, and the cleaner's
\* output holds no ASCII letter or digit and no markup tag.
C10_CleanIdempotent ==
    /\ pc = "recleaned" => recleaned = cleaned
    /\ pc \in {"cleaned", "recleaned"} =>
          /\ \A i \in 1..Len(cleaned) : cleaned[i] \notin AsciiAlnum
          /\ ~HasTag(cleaned)

\* C10 witness: a text with a tag, a letter and an ideograph was cleaned twice.
C10_Witness ==
    /\ pc = "recleaned"
    /\ HasTag(text)
    /\ \E i \in 1..Len(text) : text[i] \in AsciiAlnum
    /\ cleaned # <<>>
    /\ cleaned # text
====
